---- MODULE Spec2Model ----
\* scripts/extract_rust_snippets.py: extraction of the rust code blocks of a
\* Markdown file into numbered snippet files and a count file.
\*
\* Text is a sequence of one-character strings, so that str.strip, str.split,
\* str.join and the two families of regular expressions of the script are
\* computed character by character.
EXTENDS Integers, Sequences, FiniteSets, TLC

\* ------------------------------------------------------------------ bounds
\* A document is the concatenation of at most MaxChunks pieces of text, or of
\* at most MaxBlocks fenced blocks.
MaxChunks == 4
MaxBlocks == 2
\* The script is run at most MaxRuns times in a row into the same temp_dir.
MaxRuns == 3

\* ------------------------------------------------------- character classes
UpperCase == <<"A", "B", "C", "D", "E", "F", "G", "H", "I", "J", "K", "L", "M",
               "N", "O", "P", "Q", "R", "S", "T", "U", "V", "W", "X", "Y", "Z">>
LowerCase == <<"a", "b", "c", "d", "e", "f", "g", "h", "i", "j", "k", "l", "m",
               "n", "o", "p", "q", "r", "s", "t", "u", "v", "w", "x", "y", "z">>
Digits == <<"0", "1", "2", "3", "4", "5", "6", "7", "8", "9">>

Range(f) == {f[i] : i \in DOMAIN f}

\* \s of the re module and the characters str.strip() removes
IsSpace(c) == c \in {" ", "\t", "\n", "\r"}

\* \w of the re module
IsWord(c) == c \in Range(UpperCase) \cup Range(LowerCase) \cup Range(Digits) \cup {"_"}

\* re.IGNORECASE compares characters after case folding
Lower(c) ==
    IF \E i \in DOMAIN UpperCase : UpperCase[i] = c
    THEN LowerCase[CHOOSE i \in DOMAIN UpperCase : UpperCase[i] = c]
    ELSE c

\* ------------------------------------------------------------ str methods
\* first position >= i of s that holds no whitespace (Len(s) + 1 if none)
SkipSpace(s, i) ==
    CHOOSE j \in i..(Len(s) + 1) :
        /\ \A k \in i..(j - 1) : IsSpace(s[k])
        /\ (j = Len(s) + 1 \/ ~IsSpace(s[j]))

\* first position >= i of s that holds no word character
SkipWord(s, i) ==
    CHOOSE j \in i..(Len(s) + 1) :
        /\ \A k \in i..(j - 1) : IsWord(s[k])
        /\ (j = Len(s) + 1 \/ ~IsWord(s[j]))

\* str.strip()
Strip(s) ==
    LET a == SkipSpace(s, 1)
        b == IF a > Len(s) THEN 0
             ELSE CHOOSE j \in a..Len(s) :
                      /\ ~IsSpace(s[j])
                      /\ \A k \in (j + 1)..Len(s) : IsSpace(s[k])
    IN  SubSeq(s, a, b)

\* str.startswith(prefix)
StartsWith(s, prefix) ==
    /\ Len(s) >= Len(prefix)
    /\ SubSeq(s, 1, Len(prefix)) = prefix

\* content.split('\n'): the pieces between the newlines, empty pieces kept
RECURSIVE SplitFrom(_, _)
SplitFrom(s, i) ==
    IF \E j \in i..Len(s) : s[j] = "\n"
    THEN LET j == CHOOSE j \in i..Len(s) :
                      s[j] = "\n" /\ \A k \in i..(j - 1) : s[k] # "\n"
         IN  <<SubSeq(s, i, j - 1)>> \o SplitFrom(s, j + 1)
    ELSE <<SubSeq(s, i, Len(s))>>

Split(s) == SplitFrom(s, 1)

\* '\n'.join(ls)
RECURSIVE Join(_)
Join(ls) ==
    IF ls = <<>> THEN <<>>
    ELSE IF Len(ls) = 1 THEN ls[1]
    ELSE ls[1] \o <<"\n">> \o Join(Tail(ls))

\* str(n) for n >= 0
RECURSIVE Str(_)
Str(n) ==
    IF n < 10 THEN <<Digits[n + 1]>>
    ELSE Str(n \div 10) \o <<Digits[(n % 10) + 1]>>

\* ------------------------------------------------------ regular expressions
\* the literal lit stands at position i of s
Lit(s, i, lit) ==
    /\ i + Len(lit) - 1 <= Len(s)
    /\ \A k \in 1..Len(lit) : s[i + k - 1] = lit[k]

\* the same under re.IGNORECASE
LitIC(s, i, lit) ==
    /\ i + Len(lit) - 1 <= Len(s)
    /\ \A k \in 1..Len(lit) : Lower(s[i + k - 1]) = Lower(lit[k])

\* \s*$ under re.MULTILINE at position i: after some of the whitespace that
\* starts at i comes the end of the text or a newline
SpacesThenEol(s, i) ==
    LET a == SkipSpace(s, i)
    IN  a = Len(s) + 1 \/ \E k \in i..(a - 1) : s[k] = "\n"

\* the grave accent U+0060 of the Markdown fences, which a TLA+ string cannot hold
Tick == "tick"

FENCE_RUST == <<Tick, Tick, Tick, "r", "u", "s", "t">>
FENCE == <<Tick, Tick, Tick>>
DERIVE == <<"#", "[", "d", "e", "r", "i", "v", "e">>
STRUCT == <<"s", "t", "r", "u", "c", "t">>
SLASHES == <<"/", "/">>
YOUR == <<"Y", "o", "u", "r">>
CODE == <<"c", "o", "d", "e">>
HERE == <<"h", "e", "r", "e">>
DOTS == <<".", ".", ".">>
HASH == <<"#">>

\* r'^\s*//\s*Your\s+code\s+here\s*$' tried by re.match at the start of s
MatchYourCodeHere(s) ==
    LET a == SkipSpace(s, 1)
        b == SkipSpace(s, a + 2)
        c == SkipSpace(s, b + 4)
        d == SkipSpace(s, c + 4)
    IN  /\ Lit(s, a, SLASHES)
        /\ LitIC(s, b, YOUR)
        /\ c > b + 4
        /\ LitIC(s, c, CODE)
        /\ d > c + 4
        /\ LitIC(s, d, HERE)
        /\ SpacesThenEol(s, d + 4)

\* r'^\s*//\s*\.\.\.\s*$' and r'^\s*#\s*\.\.\.\s*$'
MatchCommentDots(s, lead) ==
    LET a == SkipSpace(s, 1)
        b == SkipSpace(s, a + Len(lead))
    IN  /\ Lit(s, a, lead)
        /\ Lit(s, b, DOTS)
        /\ SpacesThenEol(s, b + 3)

\* r'^\s*\.\.\.\s*$'
MatchDots(s) ==
    LET a == SkipSpace(s, 1)
    IN  Lit(s, a, DOTS) /\ SpacesThenEol(s, a + 3)

\* the length under which a snippet is too short to be meaningful
MinLength == 10

is_placeholder_snippet(code) ==
    LET code_stripped == Strip(code)
    IN  \/ MatchYourCodeHere(code_stripped)
        \/ MatchCommentDots(code_stripped, SLASHES)
        \/ MatchCommentDots(code_stripped, HASH)
        \/ MatchDots(code_stripped)
        \/ Len(code_stripped) < MinLength

\* r'\s*\nstruct\s+\w+\s*\{.*?\}' from position i of s: the position of the
\* closing brace, 0 when there is no match
StructTail(s, i) ==
    LET a == SkipSpace(s, i)
        b == SkipSpace(s, a + 6)
        c == SkipWord(s, b)
        d == SkipSpace(s, c)
    IN  IF /\ a > i
           /\ s[a - 1] = "\n"
           /\ Lit(s, a, STRUCT)
           /\ b > a + 6
           /\ c > b
           /\ d <= Len(s)
           /\ s[d] = "{"
           /\ \E f \in (d + 1)..Len(s) : s[f] = "}"
        THEN CHOOSE f \in (d + 1)..Len(s) :
                 s[f] = "}" /\ \A k \in (d + 1)..(f - 1) : s[k] # "}"
        ELSE 0

\* r'^#\[derive.*?\]\s*\nstruct\s+\w+\s*\{.*?\}' under re.MULTILINE | re.DOTALL
\* tried at position p: the position of the last character of the match, 0
\* when there is none.  The lazy .*? stops at the first ']' the rest matches after.
StructMatchEnd(s, p) ==
    LET closers == {q \in (p + 8)..Len(s) : s[q] = "]" /\ StructTail(s, q + 1) # 0}
    IN  IF /\ (p = 1 \/ s[p - 1] = "\n")
           /\ Lit(s, p, DERIVE)
           /\ closers # {}
        THEN StructTail(s, (CHOOSE q \in closers : \A r \in closers : q <= r) + 1)
        ELSE 0

\* list(re.finditer(...)): the matches from left to right, each search
\* resuming after the previous match
RECURSIVE FindStructs(_, _)
FindStructs(s, p) ==
    IF p > Len(s) THEN <<>>
    ELSE LET e == StructMatchEnd(s, p)
         IN  IF e # 0
             THEN <<SubSeq(s, p, e)>> \o FindStructs(s, e + 1)
             ELSE FindStructs(s, p + 1)

struct_matches(snippet) == FindStructs(snippet, 1)

\* ---------------------------------------------------------------- documents
\* The pieces of text the documents are made of: fences with the whitespace
\* str.strip() removes, two derive+struct definitions, a stub marker and a line
\* of code one character under MinLength.
OpenFence == <<" ", Tick, Tick, Tick, "r", "u", "s", "t", "\n">>
CloseFence == <<Tick, Tick, Tick, " ", "\n">>
StructA == <<"#", "[", "d", "e", "r", "i", "v", "e", "(", "D", ")", "]", "\n",
             "s", "t", "r", "u", "c", "t", " ", "A", " ", "{", "}", "\n">>
StructB == <<"#", "[", "d", "e", "r", "i", "v", "e", "(", "E", ")", "]", " ", "\n",
             "s", "t", "r", "u", "c", "t", " ", "B", " ", "{", " ", "b", " ", "}", "\n">>
Marker == <<"/", "/", " ", "y", "o", "u", "r", " ", "c", "o", "d", "e", " ",
            "h", "e", "r", "e", "\n">>
Code == <<" ", " ", "f", "n", " ", "f", "(", ")", " ", "{", "}", "\n">>

Chunks == {"open", "close", "structA", "structB", "marker", "code"}

ChunkText(c) ==
    CASE c = "open" -> OpenFence
      [] c = "close" -> CloseFence
      [] c = "structA" -> StructA
      [] c = "structB" -> StructB
      [] c = "marker" -> Marker
      [] c = "code" -> Code

\* the text of the file made of the chunks cs
RECURSIVE Text(_)
Text(cs) == IF cs = <<>> THEN <<>> ELSE ChunkText(Head(cs)) \o Text(Tail(cs))

ShortDocuments == UNION {[1..n -> Chunks] : n \in 0..MaxChunks}

\* Whole blocks: one struct, two structs, code without a struct, a stub, a
\* block that is never closed, and a line outside the blocks.
Blocks == { <<"open", "structA", "close">>,
            <<"open", "structA", "structB", "close">>,
            <<"open", "code", "code", "close">>,
            <<"open", "marker", "close">>,
            <<"open", "structB">>,
            <<"code">> }

RECURSIVE Flatten(_)
Flatten(ss) == IF ss = <<>> THEN <<>> ELSE Head(ss) \o Flatten(Tail(ss))

BlockDocuments == {Flatten(bs) : bs \in UNION {[1..n -> Blocks] : n \in 0..MaxBlocks}}

Documents == ShortDocuments \cup BlockDocuments

\* ------------------------------------------------------------------ files
\* os.path.join(temp_dir, f"{safe_name}_snippet_{n}.rs")
SnippetFile(n) == <<"snippet", n>>
\* os.path.join(temp_dir, f"count_{safe_name}.txt")
CountFile == <<"count", 0>>

\* the snippet files of the directory d
SnippetFiles(d) == {f \in DOMAIN d : f[1] = "snippet"}

NoFiles == [f \in {} |-> <<>>]

\* open(name, 'a') in place of open(name, 'w'): the text is added to the file
WriteFileAppend(d, name, text) ==
    [f \in DOMAIN d \cup {name} |->
        IF f # name THEN d[f]
        ELSE IF name \in DOMAIN d THEN d[name] \o text ELSE text]

\* with open(name, 'w') as f: f.write(text), completed
WriteFile(d, name, text) ==
    [f \in DOMAIN d \cup {name} |-> IF f = name THEN text ELSE d[f]]

\* ------------------------------------------------------------------ state
VARIABLES
    document,         \* the chunks of the file at file_path
    previous,         \* the documents of the earlier runs into temp_dir
    dir,              \* temp_dir: file name -> content
    pc,               \* "read", "scan", "write", "print", "done"
    lines,            \* content.split('\n')
    li,               \* position of the for loop over lines
    in_rust_block,
    current_snippet,
    snippets,
    si,               \* position of the for loop over snippets
    mj,               \* matches of snippets[si] already written
    snippet_count,
    ret,              \* the value returned, -1 while running
    dir0,             \* temp_dir when the run started
    written,          \* <<n, text>> of the snippet files this run has written
    fail              \* the step that raised: "none", "read", "snippet", "count", "print"

vars == <<document, previous, dir, pc, lines, li, in_rust_block, current_snippet,
          snippets, si, mj, snippet_count, ret, dir0, written, fail>>

scanner == <<lines, li, in_rust_block, current_snippet, snippets>>
writer == <<si, mj, snippet_count>>

Init ==
    /\ document \in Documents
    /\ previous = <<>>
    /\ dir = NoFiles
    /\ pc = "read"
    /\ lines = <<>>
    /\ li = 1
    /\ in_rust_block = FALSE
    /\ current_snippet = <<>>
    /\ snippets = <<>>
    /\ si = 1
    /\ mj = 0
    /\ snippet_count = 0
    /\ ret = -1
    /\ dir0 = NoFiles
    /\ written = <<>>
    /\ fail = "none"

\* except Exception: print the error, return 1
Raise(step) ==
    /\ pc' = "done"
    /\ ret' = 1
    /\ fail' = step

\* ----------------------------------------------------------------- reading
\* open(file_path).read(), content.split('\n') and the initial scanner state
Read ==
    /\ pc = "read"
    /\ pc' = "scan"
    /\ lines' = Split(Text(document))
    /\ li' = 1
    /\ snippets' = <<>>
    /\ in_rust_block' = FALSE
    /\ current_snippet' = <<>>
    /\ UNCHANGED <<document, previous, dir, writer, ret, dir0, written, fail>>

\* the file cannot be opened, read or decoded
ReadFails ==
    /\ pc = "read"
    /\ Raise("read")
    /\ UNCHANGED <<document, previous, dir, scanner, writer, dir0, written>>

\* ---------------------------------------------------------------- scanning
IsOpenFence(line) == StartsWith(Strip(line), FENCE_RUST)
IsCloseFence(line) == Strip(line) = FENCE

\* the joined lines are appended without .strip()
EmitUnstripped(current, acc) ==
    LET snippet_code == Join(current)
    IN  IF /\ current # <<>>
           /\ snippet_code # <<>>
           /\ ~is_placeholder_snippet(snippet_code)
        THEN Append(acc, snippet_code)
        ELSE acc

\* if current_snippet: strip the joined lines and append them to the snippets
\* unless they are empty or a placeholder
Emit(current, acc) ==
    LET snippet_code == Strip(Join(current))
    IN  IF /\ current # <<>>
           /\ snippet_code # <<>>
           /\ ~is_placeholder_snippet(snippet_code)
        THEN Append(acc, snippet_code)
        ELSE acc

\* the whole for loop over the lines ls from line i on, as a function: the
\* snippets it leaves
RECURSIVE ScanFrom(_, _, _, _, _)
ScanFrom(ls, i, inside, current, acc) ==
    IF i > Len(ls) THEN acc
    ELSE IF IsOpenFence(ls[i]) THEN ScanFrom(ls, i + 1, TRUE, <<>>, acc)
    ELSE IF IsCloseFence(ls[i]) /\ inside
         THEN ScanFrom(ls, i + 1, FALSE, <<>>, Emit(current, acc))
    ELSE IF inside THEN ScanFrom(ls, i + 1, TRUE, Append(current, ls[i]), acc)
    ELSE ScanFrom(ls, i + 1, FALSE, current, acc)

Scan(ls) == ScanFrom(ls, 1, FALSE, <<>>, <<>>)

\* if line.strip().startswith(FENCE_RUST): whatever in_rust_block is
OpenFenceLine ==
    /\ pc = "scan"
    /\ li <= Len(lines)
    /\ IsOpenFence(lines[li])
    /\ in_rust_block' = TRUE
    /\ current_snippet' = <<>>
    /\ li' = li + 1
    /\ UNCHANGED <<document, previous, dir, pc, lines, snippets, writer, ret, dir0,
                   written, fail>>

\* elif line.strip() == FENCE and in_rust_block
CloseFenceLine ==
    /\ pc = "scan"
    /\ li <= Len(lines)
    /\ ~IsOpenFence(lines[li])
    /\ IsCloseFence(lines[li])
    /\ in_rust_block
    /\ in_rust_block' = FALSE
    /\ snippets' = Emit(current_snippet, snippets)
    /\ current_snippet' = <<>>
    /\ li' = li + 1
    /\ UNCHANGED <<document, previous, dir, pc, lines, writer, ret, dir0, written, fail>>

\* elif in_rust_block
BlockLine ==
    /\ pc = "scan"
    /\ li <= Len(lines)
    /\ ~IsOpenFence(lines[li])
    /\ ~(IsCloseFence(lines[li]) /\ in_rust_block)
    /\ in_rust_block
    /\ current_snippet' = Append(current_snippet, lines[li])
    /\ li' = li + 1
    /\ UNCHANGED <<document, previous, dir, pc, lines, in_rust_block, snippets, writer,
                   ret, dir0, written, fail>>

\* no branch is taken: a line outside the blocks
OtherLine ==
    /\ pc = "scan"
    /\ li <= Len(lines)
    /\ ~IsOpenFence(lines[li])
    /\ ~in_rust_block
    /\ li' = li + 1
    /\ UNCHANGED <<document, previous, dir, pc, lines, in_rust_block, current_snippet,
                   snippets, writer, ret, dir0, written, fail>>

\* the end of the loop emits the block that is still open
EndScanFlush ==
    /\ pc = "scan"
    /\ li > Len(lines)
    /\ pc' = "write"
    /\ snippets' = IF in_rust_block THEN Emit(current_snippet, snippets) ELSE snippets
    /\ snippet_count' = 0
    /\ si' = 1
    /\ mj' = 0
    /\ UNCHANGED <<document, previous, dir, lines, li, in_rust_block, current_snippet,
                   ret, dir0, written, fail>>

\* the count file is written before the snippet files
EndScanCountFirst ==
    /\ pc = "scan"
    /\ li > Len(lines)
    /\ pc' = "write"
    /\ dir' = WriteFile(dir, CountFile, Str(Len(snippets)))
    /\ snippet_count' = 0
    /\ si' = 1
    /\ mj' = 0
    /\ UNCHANGED <<document, previous, scanner, ret, dir0, written, fail>>

\* the for loop over lines is over: snippet_count = 0 and the loop over snippets
EndScan ==
    /\ pc = "scan"
    /\ li > Len(lines)
    /\ pc' = "write"
    /\ snippet_count' = 0
    /\ si' = 1
    /\ mj' = 0
    /\ UNCHANGED <<document, previous, dir, scanner, ret, dir0, written, fail>>

\* ----------------------------------------------------------------- writing
\* open(name, 'w') succeeded and truncated the file, the write or the close raised
Truncate(d, name) == WriteFile(d, name, <<>>)

\* the handler removes what the run has written
AfterFailedWriteCleanup(d, name) == {[f \in DOMAIN d \ SnippetFiles(d) |-> d[f]]}

\* what an open(name, 'w') ... write that raises leaves of the directory d: d
\* itself when open raised, the file emptied when a later call raised
AfterFailedWrite(d, name) == {d, Truncate(d, name)}

\* len(struct_matches) > 0 in place of len(struct_matches) > 1
ShouldSplitAny(matches) == Len(matches) > 0

\* if len(struct_matches) > 1
ShouldSplit(matches) == Len(matches) > 1

\* len(struct_matches) > 1: the next match goes to its own file
WriteStructFile ==
    /\ pc = "write"
    /\ si <= Len(snippets)
    /\ LET matches == struct_matches(snippets[si])
       IN  /\ ShouldSplit(matches)
           /\ snippet_count' = snippet_count + 1
           /\ dir' = WriteFile(dir, SnippetFile(snippet_count'), matches[mj + 1])
           /\ written' = Append(written, <<snippet_count', matches[mj + 1]>>)
           /\ IF mj + 1 < Len(matches)
              THEN si' = si /\ mj' = mj + 1
              ELSE si' = si + 1 /\ mj' = 0
    /\ UNCHANGED <<document, previous, pc, scanner, ret, dir0, fail>>

\* the file is numbered by i of enumerate(snippets, 1), not by snippet_count
WriteSnippetFileAtI ==
    /\ pc = "write"
    /\ si <= Len(snippets)
    /\ ~ShouldSplit(struct_matches(snippets[si]))
    /\ snippet_count' = snippet_count + 1
    /\ dir' = WriteFile(dir, SnippetFile(si), snippets[si])
    /\ written' = Append(written, <<si, snippets[si]>>)
    /\ si' = si + 1
    /\ mj' = 0
    /\ UNCHANGED <<document, previous, pc, scanner, ret, dir0, fail>>

\* else: the snippet goes to one file
WriteSnippetFile ==
    /\ pc = "write"
    /\ si <= Len(snippets)
    /\ ~ShouldSplit(struct_matches(snippets[si]))
    /\ snippet_count' = snippet_count + 1
    /\ dir' = WriteFile(dir, SnippetFile(snippet_count'), snippets[si])
    /\ written' = Append(written, <<snippet_count', snippets[si]>>)
    /\ si' = si + 1
    /\ mj' = 0
    /\ UNCHANGED <<document, previous, pc, scanner, ret, dir0, fail>>

\* writing the next snippet file raises
SnippetWriteFails ==
    /\ pc = "write"
    /\ si <= Len(snippets)
    /\ snippet_count' = snippet_count + 1
    /\ dir' \in AfterFailedWrite(dir, SnippetFile(snippet_count'))
    /\ Raise("snippet")
    /\ UNCHANGED <<document, previous, scanner, si, mj, dir0, written>>

\* str(len(snippets)) in place of str(snippet_count)
WriteCountOfSnippets ==
    /\ pc = "write"
    /\ si > Len(snippets)
    /\ dir' = WriteFile(dir, CountFile, Str(Len(snippets)))
    /\ pc' = "print"
    /\ UNCHANGED <<document, previous, scanner, writer, ret, dir0, written, fail>>

\* the loop over snippets is over: cf.write(str(snippet_count))
WriteCount ==
    /\ pc = "write"
    /\ si > Len(snippets)
    /\ dir' = WriteFile(dir, CountFile, Str(snippet_count))
    /\ pc' = "print"
    /\ UNCHANGED <<document, previous, scanner, writer, ret, dir0, written, fail>>

\* writing the count file raises
CountWriteFails ==
    /\ pc = "write"
    /\ si > Len(snippets)
    /\ dir' \in AfterFailedWrite(dir, CountFile)
    /\ Raise("count")
    /\ UNCHANGED <<document, previous, scanner, writer, dir0, written>>

\* print("Extracted ..."); return 0
Return ==
    /\ pc = "print"
    /\ pc' = "done"
    /\ ret' = 0
    /\ UNCHANGED <<document, previous, dir, scanner, writer, dir0, written, fail>>

\* print raises (standard output is closed or full)
PrintFails ==
    /\ pc = "print"
    /\ Raise("print")
    /\ UNCHANGED <<document, previous, dir, scanner, writer, dir0, written>>

\* -------------------------------------------------------------- the caller
\* After a run that returned 0 the caller starts the script again with the same
\* temp_dir and safe_name: the second run on the same document or on the
\* document without its last chunk, the later runs on the same document.
Edits(doc) == {doc} \cup (IF doc = <<>> THEN {} ELSE {SubSeq(doc, 1, Len(doc) - 1)})

Rerun ==
    /\ pc = "done"
    /\ ret = 0
    /\ Len(previous) < MaxRuns - 1
    /\ document' \in (IF previous = <<>> THEN Edits(document) ELSE {document})
    /\ previous' = Append(previous, document)
    /\ pc' = "read"
    /\ lines' = <<>>
    /\ li' = 1
    /\ in_rust_block' = FALSE
    /\ current_snippet' = <<>>
    /\ snippets' = <<>>
    /\ si' = 1
    /\ mj' = 0
    /\ snippet_count' = 0
    /\ ret' = -1
    /\ dir0' = dir
    /\ written' = <<>>
    /\ fail' = "none"
    /\ UNCHANGED dir

extract_rust_snippets ==
    \/ Read
    \/ ReadFails
    \/ OpenFenceLine
    \/ CloseFenceLine
    \/ BlockLine
    \/ OtherLine
    \/ EndScan
    \/ WriteStructFile
    \/ WriteSnippetFile
    \/ SnippetWriteFails
    \/ WriteCount
    \/ CountWriteFails
    \/ Return
    \/ PrintFails

Next == extract_rust_snippets \/ Rerun

Spec == Init /\ [][Next]_vars

\* ================================================================ properties
\* the decimal number a text holds
DigitValue(c) == (CHOOSE i \in DOMAIN Digits : Digits[i] = c) - 1

RECURSIVE ParseInt(_)
ParseInt(s) ==
    IF Len(s) = 1 THEN DigitValue(s[1])
    ELSE 10 * ParseInt(SubSeq(s, 1, Len(s) - 1)) + DigitValue(s[Len(s)])

\* the count file of d is the count file of e: both absent or both the same
SameCount(d, e) ==
    /\ CountFile \in DOMAIN d <=> CountFile \in DOMAIN e
    /\ CountFile \in DOMAIN d => d[CountFile] = e[CountFile]

\* the units of the snippets ss: the matches of a snippet with two or more
\* matches, the snippet itself otherwise
RECURSIVE Units(_)
Units(ss) ==
    IF ss = <<>> THEN <<>>
    ELSE LET m == struct_matches(Head(ss))
         IN  (IF Len(m) >= 2 THEN m ELSE <<Head(ss)>>) \o Units(Tail(ss))

Succeeded == pc = "done" /\ ret = 0

\* C1 as stated: after a run that returned 0 the number of snippet files in
\* the directory is the decimal number in the count file, whatever the
\* directory held before the run.
C1_FilesEqualCount ==
    Succeeded =>
        /\ CountFile \in DOMAIN dir
        /\ Cardinality(SnippetFiles(dir)) = ParseInt(dir[CountFile])

\* C1 amended: after a run that returned 0 the snippet files in the directory
\* are those numbered 1..count together with the files numbered above count
\* that the directory held before the run; their number is the count when the
\* directory held none of those.
C1_FilesAreCountAndStale ==
    Succeeded =>
        /\ CountFile \in DOMAIN dir
        /\ LET k == ParseInt(dir[CountFile])
           IN  /\ k = Len(written)
               /\ SnippetFiles(dir) =
                      {SnippetFile(n) : n \in 1..k}
                          \cup {f \in SnippetFiles(dir0) : f[2] > k}
               /\ (\A f \in SnippetFiles(dir0) : f[2] <= k)
                      => Cardinality(SnippetFiles(dir)) = k

C1_Witness ==
    /\ Succeeded
    /\ written # <<>>
    /\ \E f \in SnippetFiles(dir0) : f[2] > Len(written)

\* C2: within a run the units are written to the files numbered 1, 2, ..., N
\* in the order they are emitted: no gap, no number used twice.
C2_IndicesInOrder ==
    /\ \A k \in DOMAIN written : written[k][1] = k
    /\ pc \in {"write", "print"} => snippet_count = Len(written)

C2_Witness ==
    /\ Succeeded
    /\ Len(snippets) >= 2
    /\ Len(written) > Len(snippets)

\* C3: a kept snippet with m >= 2 matches is written as m files, one per match
\* in order and holding the text of the match, and no file holds the snippet
\* itself; a snippet with m < 2 is written unchanged to one file; the count
\* is the sum of the units.
C3_UnitsWritten ==
    (pc \in {"print", "done"} /\ fail \in {"none", "count", "print"}) =>
        LET units == Units(snippets)
        IN  /\ Len(written) = Len(units)
            /\ \A k \in DOMAIN written :
                   /\ written[k][2] = units[k]
                   /\ dir[SnippetFile(k)] = units[k]
            /\ \A i \in DOMAIN snippets :
                   Len(struct_matches(snippets[i])) >= 2 =>
                       \A k \in DOMAIN written : written[k][2] # snippets[i]
            /\ fail # "count" => ParseInt(dir[CountFile]) = Len(units)

C3_Witness ==
    /\ Succeeded
    /\ \E i \in DOMAIN snippets : Len(struct_matches(snippets[i])) >= 2
    /\ \E i \in DOMAIN snippets : Len(struct_matches(snippets[i])) < 2

\* a line that one of the placeholder patterns matches
MarkerLine(line) ==
    \/ MatchYourCodeHere(line)
    \/ MatchCommentDots(line, SLASHES)
    \/ MatchCommentDots(line, HASH)
    \/ MatchDots(line)

ClaimedPlaceholder(code) ==
    \/ Len(code) < MinLength
    \/ \E k \in DOMAIN Split(code) : MarkerLine(Split(code)[k])

\* C4: a block is discarded if and only if its stripped text is shorter than
\* 10 characters or some line of it, the first or a later one, is a stub
\* marker line.
C4_AnyLineMarkerDiscards ==
    [][(CloseFenceLine /\ Strip(Join(current_snippet)) # <<>>) =>
           (snippets' = snippets
                <=> ClaimedPlaceholder(Strip(Join(current_snippet))))]_vars

\* C5: an opening fence met inside a block is appended to the accumulator as
\* content, leaves the scanner inside the block and discards nothing.
C5_OpenFenceInsideIsContent ==
    [][(/\ pc = "scan"
        /\ li <= Len(lines)
        /\ in_rust_block
        /\ IsOpenFence(lines[li])) =>
           /\ in_rust_block'
           /\ current_snippet' = Append(current_snippet, lines[li])
           /\ snippets' = snippets]_vars

LastOpenFence(ls) ==
    CHOOSE p \in DOMAIN ls :
        IsOpenFence(ls[p]) /\ \A q \in (p + 1)..Len(ls) : ~IsOpenFence(ls[q])

\* C6: when the document ends inside a block, the snippets are those of the
\* document cut before its last opening fence, they are written, nothing of
\* the lines after that fence is, and the run returns 0.
C6_DanglingBlockDropped ==
    (pc \in {"write", "print", "done"} /\ in_rust_block) =>
        /\ snippets = Scan(SubSeq(lines, 1, LastOpenFence(lines) - 1))
        /\ (pc = "done" /\ fail = "none") =>
               /\ ret = 0
               /\ Len(written) = Len(Units(snippets))
               /\ SnippetFiles(dir) \ SnippetFiles(dir0)
                      \subseteq {SnippetFile(k) : k \in DOMAIN written}
               /\ \A k \in DOMAIN written : dir[SnippetFile(k)] = Units(snippets)[k]

C6_Witness ==
    /\ Succeeded
    /\ in_rust_block
    /\ written # <<>>
    /\ ~is_placeholder_snippet(Strip(Join(current_snippet)))

\* C7: when reading the input, writing the i-th snippet file or writing the
\* count file fails, the run stops there and returns 1, and the files 1..i-1
\* written by the run keep their content; no other file is touched.
C7_FailureKeepsWrittenFiles ==
    fail \in {"read", "snippet", "count"} =>
        /\ pc = "done"
        /\ ret = 1
        /\ \A k \in DOMAIN written :
               /\ SnippetFile(k) \in DOMAIN dir
               /\ dir[SnippetFile(k)] = written[k][2]
        /\ fail = "read" => (dir = dir0 /\ written = <<>>)
        /\ fail = "snippet" => snippet_count = Len(written) + 1
        /\ \A f \in SnippetFiles(dir0) : f[2] > snippet_count =>
               (f \in DOMAIN dir /\ dir[f] = dir0[f])

C7_Witness ==
    /\ fail = "snippet"
    /\ Len(written) >= 2

\* the lines ls hold one block, opened at line a and closed at line b
OneBlock(ls, a, b) ==
    /\ a < b
    /\ IsOpenFence(ls[a])
    /\ IsCloseFence(ls[b])
    /\ \A q \in DOMAIN ls \ {a} : ~IsOpenFence(ls[q])
    /\ \A q \in (a + 1)..(b - 1) : ~IsCloseFence(ls[q])

BlockText(ls, a, b) == Strip(Join(SubSeq(ls, a + 1, b - 1)))

OneFile(text) ==
    WriteFile(WriteFile(NoFiles, SnippetFile(1), text), CountFile, <<"1">>)

\* C8 as stated: a document with one well-formed block of at least 10
\* characters and at most one derive+struct match, run into an empty
\* directory, leaves one snippet file holding the stripped block and the
\* count 1, and the run returns 0.
C8_OneBlockOneFile ==
    (pc = "done" /\ fail = "none" /\ previous = <<>>) =>
        \A a, b \in DOMAIN lines :
            (/\ OneBlock(lines, a, b)
             /\ Len(BlockText(lines, a, b)) >= MinLength
             /\ Len(struct_matches(BlockText(lines, a, b))) <= 1) =>
                (ret = 0 /\ dir = OneFile(BlockText(lines, a, b)))

\* C8 amended: the same for the blocks that no placeholder pattern matches
\* at their start.
C8_OneKeptBlockOneFile ==
    (pc = "done" /\ fail = "none" /\ previous = <<>>) =>
        \A a, b \in DOMAIN lines :
            (/\ OneBlock(lines, a, b)
             /\ Len(BlockText(lines, a, b)) >= MinLength
             /\ ~is_placeholder_snippet(BlockText(lines, a, b))
             /\ Len(struct_matches(BlockText(lines, a, b))) <= 1) =>
                (ret = 0 /\ dir = OneFile(BlockText(lines, a, b)))

C8_Witness ==
    /\ Succeeded
    /\ previous = <<>>
    /\ \E a, b \in DOMAIN lines :
           /\ OneBlock(lines, a, b)
           /\ ~is_placeholder_snippet(BlockText(lines, a, b))
           /\ Len(struct_matches(BlockText(lines, a, b))) = 1
           /\ struct_matches(BlockText(lines, a, b))[1] # BlockText(lines, a, b)

\* C9 as stated: a run that returns 1 leaves the count file as it was before
\* the run.
C9_FailedRunKeepsCount ==
    (pc = "done" /\ ret = 1) => SameCount(dir, dir0)

\* C9 amended: the count file is as it was before the run until every
\* snippet file is written, and after a run that returned 1 because reading
\* the input or writing a snippet file failed.
C9_CountWrittenLast ==
    /\ pc \in {"read", "scan", "write"} => SameCount(dir, dir0)
    /\ (pc = "done" /\ ret = 1 /\ fail \in {"read", "snippet"})
           => SameCount(dir, dir0)
    /\ (pc = "done" /\ ret = 1) => fail # "none"

C9_Witness ==
    /\ pc = "done"
    /\ ret = 1
    /\ fail = "snippet"
    /\ written # <<>>
    /\ CountFile \in DOMAIN dir0
    /\ dir # dir0

\* C10: a run on the document of the run before it, neither failing, leaves
\* the directory as the run before it left it.
C10_Idempotent ==
    (Succeeded /\ previous # <<>> /\ previous[Len(previous)] = document)
        => dir = dir0

C10_Witness ==
    /\ Succeeded
    /\ Len(previous) = 2
    /\ previous[1] # document
    /\ previous[2] = document
    /\ Len(written) >= 1
    /\ \E f \in SnippetFiles(dir) : f[2] > Len(written)

====
